---- MODULE Spec2Model ----
(***************************************************************************)
(* go-xeger: random strings from a regular expression (src/xeger.go).      *)
(*                                                                         *)
(* A string is a sequence of code points.  A syntax tree node is a record  *)
(* [op, rune, sub, min, max] shaped like regexp/syntax.Regexp.  The random *)
(* source is external: the values it delivers to one walk are a script     *)
(* (a cyclic sequence of values) chosen freely for every call.             *)
(***************************************************************************)
EXTENDS Integers, Sequences, FiniteSets, TLC

VARIABLES
  pc,      \* "start" | "ready" | "error" | "panic": where the caller is
  regex,   \* the pattern text handed to NewXeger
  opts,    \* the options handed to NewXeger
  x,       \* the Xeger: [re, source, limit]
  err,     \* NewXeger's error result
  last,    \* what the last Generate did: [out, drawn, reps, ok]
  calls,   \* number of Generate calls made
  srcPos,  \* number of values consumed from the source so far
  st,      \* per goroutine: "idle" | "running" | "done" | "panic" | "srcpanic"
  call,    \* per goroutine: the walk in progress [agenda, buf, recv]
  ncalls,  \* per goroutine: number of Generate calls begun
  torn     \* a data race has left the source's state inconsistent

vars == <<pc, regex, opts, x, err, last, calls, srcPos, st, call, ncalls, torn>>

(***************************** bounds *************************************)
MaxOpts == 2        \* longest option list given to NewXeger
MaxScript == 2      \* period of a scripted source
MaxCalls == 2       \* Generate calls per Xeger in the sequential program
MaxSourceVal == 2   \* largest value a scripted source delivers
ConcCalls == 2      \* Generate calls per goroutine
DrawBudget == 3     \* most draws one walk may need in the concurrent program
MaxConcVal == 1     \* largest value the shared source delivers there

(************************ character tables ********************************)
Range(a, b) == [i \in 1..(b - a + 1) |-> a + i - 1]

ascii_lowercase == Range(97, 122)
ascii_uppercase == Range(65, 90)
ascii_letters == ascii_lowercase \o ascii_uppercase
digits == Range(48, 57)
punctuation == Range(32, 47) \o Range(58, 64) \o Range(91, 96) \o Range(123, 126)
control == <<9, 11, 12, 13>>
newline == <<10>>
printable == digits \o ascii_letters \o punctuation \o control \o newline
printableNotNL == digits \o ascii_letters \o punctuation \o control

defaultLimit == 10

(************************ Go conversions **********************************)
MaxRune == 1114111
SurrogateMin == 55296
SurrogateMax == 57343
RuneError == 65533

\* string(rune(r)): the UTF-8 encoding of r, read back as code points.  A
\* surrogate or out-of-range value is encoded as U+FFFD.
RuneString(r) ==
  IF r < 0 \/ r > MaxRune \/ (r >= SurrogateMin /\ r <= SurrogateMax)
  THEN <<RuneError>> ELSE <<r>>

RECURSIVE RunesString(_)
\* string(re.Rune) for a rune slice
RunesString(rs) ==
  IF rs = <<>> THEN <<>> ELSE RuneString(Head(rs)) \o RunesString(Tail(rs))

(************************ syntax trees ************************************)
Node(op, rune, sub, min, max) ==
  [op |-> op, rune |-> rune, sub |-> sub, min |-> min, max |-> max]

Lit(rs) == Node("OpLiteral", rs, <<>>, 0, 0)
CC(rs) == Node("OpCharClass", rs, <<>>, 0, 0)
Leaf(op) == Node(op, <<>>, <<>>, 0, 0)
Un(op, s) == Node(op, <<>>, <<s>>, 0, 0)
Rep(s, min, max) == Node("OpRepeat", <<>>, <<s>>, min, max)
Cat(ss) == Node("OpConcat", <<>>, ss, 0, 0)
Alt(ss) == Node("OpAlternate", <<>>, ss, 0, 0)

\* syntax.Parse(regex, syntax.Perl) on the pattern texts the model uses.
ParseTable ==
  <<
    [text |-> "abc", ok |-> TRUE, re |-> Lit(<<97, 98, 99>>)],
    [text |-> "[0-9]+", ok |-> TRUE, re |-> Un("OpPlus", CC(<<48, 57>>))],
    [text |-> "a?", ok |-> TRUE, re |-> Un("OpQuest", Lit(<<97>>))],
    [text |-> "(cat|dog)", ok |-> TRUE,
     re |-> Un("OpCapture", Alt(<<Lit(<<99, 97, 116>>), Lit(<<100, 111, 103>>)>>))],
    [text |-> "(", ok |-> FALSE, re |-> Leaf("OpNoMatch")],
    [text |-> "a{2,4}", ok |-> TRUE, re |-> Rep(Lit(<<97>>), 2, 4)],
    [text |-> "a{2,}", ok |-> TRUE, re |-> Rep(Lit(<<97>>), 2, -1)],
    [text |-> "a{4,}", ok |-> TRUE, re |-> Rep(Lit(<<97>>), 4, -1)],
    [text |-> "a{11,}", ok |-> TRUE, re |-> Rep(Lit(<<97>>), 11, -1)],
    [text |-> "a\\bb", ok |-> TRUE,
     re |-> Cat(<<Lit(<<97>>), Leaf("OpWordBoundary"), Lit(<<98>>)>>)],
    [text |-> "^a$", ok |-> TRUE,
     re |-> Cat(<<Leaf("OpBeginText"), Lit(<<97>>), Leaf("OpEndText")>>)],
    [text |-> "[a-c]*", ok |-> TRUE, re |-> Un("OpStar", CC(<<97, 99>>))],
    [text |-> "[ad-f]", ok |-> TRUE, re |-> CC(<<97, 97, 100, 102>>)],
    [text |-> ".", ok |-> TRUE, re |-> Leaf("OpAnyCharNotNL")],
    [text |-> "(?s).", ok |-> TRUE, re |-> Leaf("OpAnyChar")],
    [text |-> "(a?b)+", ok |-> TRUE,
     re |-> Un("OpPlus", Un("OpCapture",
               Cat(<<Un("OpQuest", Lit(<<97>>)), Lit(<<98>>)>>)))],
    [text |-> "", ok |-> TRUE, re |-> Leaf("OpEmptyMatch")],
    [text |-> "[\\x{D800}-\\x{D801}]", ok |-> TRUE, re |-> CC(<<55296, 55297>>)]
  >>

Regexes == {ParseTable[i].text : i \in 1..Len(ParseTable)}

Parse(text) ==
  LET i == CHOOSE j \in 1..Len(ParseTable) : ParseTable[j].text = text
  IN ParseTable[i]

(************************ the random source *******************************)
\* Values the source may deliver (each is used modulo the randInt bound).
SourceVals == 0..MaxSourceVal

\* A scripted source: delivers vals[pos], vals[pos+1], ... cyclically.
Scripts == [vals : [1..MaxScript -> SourceVals], pos : {1}]

Int63(s) == s.vals[s.pos]

AdvanceSource(s) == [s EXCEPT !.pos = (s.pos % Len(s.vals)) + 1]

\* The source that delivers exactly the values vs (and then repeats them).
ScriptOf(vs) == [vals |-> IF vs = <<>> THEN <<0>> ELSE vs, pos |-> 1]

\* randInt(n) once the source has delivered v: int(v % int64(n)).  Go's %
\* truncates, so for v >= 0 and n < 0 the result is v mod |n|; n = 0 panics.
RandInt(v, n) == IF n > 0 THEN v % n ELSE IF n < 0 THEN v % (0 - n) ELSE 0

RandIntPanics(n) == n = 0

(************************ per-node arithmetic ******************************)
RECURSIVE ClassSum(_)
\* sum += 1 + int(re.Rune[i+1]-re.Rune[i]) over the range pairs
ClassSum(rune) ==
  IF Len(rune) < 2 THEN 0
  ELSE 1 + (rune[2] - rune[1]) + ClassSum(SubSeq(rune, 3, Len(rune)))

RECURSIVE ClassRune(_, _)
\* The second loop of the OpCharClass case: the rune picked for index, or
\* -1 when the loop falls through to `return ""`.
ClassRune(rune, index) ==
  IF Len(rune) < 2 THEN -1
  ELSE LET delta == rune[2] - rune[1]
       IN IF index <= delta THEN rune[1] + index
          ELSE ClassRune(SubSeq(rune, 3, Len(rune)), index - (delta + 1))

\* What the OpCharClass case returns for a drawn index.
CharClassString(rune, index) ==
  LET r == ClassRune(rune, index)
  IN IF r = -1 THEN <<>> ELSE RuneString(r)

\* max := re.Max; if max == -1 { max = x.limit }
EffMax(re, limit) == IF re.max = -1 THEN limit ELSE re.max

DrawOps ==
  {"OpCharClass", "OpAnyCharNotNL", "OpAnyChar", "OpStar", "OpPlus",
   "OpQuest", "OpRepeat", "OpAlternate"}

RepeatOps == {"OpStar", "OpPlus", "OpQuest", "OpRepeat"}

\* The argument n of the randInt(n) call a node makes.
DrawBound(re, limit) ==
  CASE re.op = "OpCharClass" -> ClassSum(re.rune)
    [] re.op = "OpAnyCharNotNL" -> Len(printableNotNL)
    [] re.op = "OpAnyChar" -> Len(printable)
    [] re.op = "OpStar" -> limit + 1
    [] re.op = "OpPlus" -> limit
    [] re.op = "OpQuest" -> 2
    [] re.op = "OpRepeat" -> EffMax(re, limit) - re.min + 1
    [] re.op = "OpAlternate" -> Len(re.sub)
    [] OTHER -> 1

\* RepeatCount with the upper end of a Repeat left out of the draw
\* (randInt(max-min) instead of randInt(max-min+1)).
RepeatCountExclusive(re, limit, v) ==
  CASE re.op = "OpStar" -> RandInt(v, limit + 1)
    [] re.op = "OpPlus" -> RandInt(v, limit) + 1
    [] re.op = "OpQuest" -> RandInt(v, 2)
    [] re.op = "OpRepeat" -> RandInt(v, EffMax(re, limit) - re.min) + re.min
    [] OTHER -> 1

\* The count a repetition node hands to generateFromSubexpression when the
\* source delivers v.
RepeatCount(re, limit, v) ==
  CASE re.op = "OpStar" -> RandInt(v, limit + 1)
    [] re.op = "OpPlus" -> RandInt(v, limit) + 1
    [] re.op = "OpQuest" -> RandInt(v, 2)
    [] re.op = "OpRepeat" -> RandInt(v, EffMax(re, limit) - re.min + 1) + re.min
    [] OTHER -> 1

(************************ the recursive walk ******************************)
\* A walk's state: the bytes produced, the source, the values drawn, the
\* repetition counts used, and whether it is still running (no panic).
StartWalk(src) ==
  [out |-> <<>>, src |-> src, drawn |-> <<>>, reps |-> <<>>, ok |-> TRUE]

RepRecord(re, limit, count) ==
  [op |-> re.op, min |-> re.min, max |-> re.max, limit |-> limit, count |-> count]

RECURSIVE generateFromRegexp(_, _, _)
RECURSIVE SubLoop(_, _, _, _, _)

\* The loops of generateFromSubexpression: i repetitions left, next child j.
SubLoop(subs, i, j, limit, a) ==
  IF ~a.ok \/ i <= 0 THEN a
  ELSE IF j > Len(subs) THEN SubLoop(subs, i - 1, 1, limit, a)
  ELSE SubLoop(subs, i, j + 1, limit, generateFromRegexp(subs[j], limit, a))

generateFromSubexpression(re, count, limit, a) ==
  SubLoop(re.sub, count, 1, limit, a)

generateFromRegexp(re, limit, a) ==
  IF ~a.ok THEN a
  ELSE IF re.op = "OpLiteral" THEN [a EXCEPT !.out = @ \o RunesString(re.rune)]
  ELSE IF re.op \in {"OpCapture", "OpConcat"}
    THEN generateFromSubexpression(re, 1, limit, a)
  ELSE IF re.op \in DrawOps THEN
    LET v == Int63(a.src)
        n == DrawBound(re, limit)
        a1 == [a EXCEPT !.src = AdvanceSource(@), !.drawn = Append(@, v)]
    IN IF RandIntPanics(n) THEN [a1 EXCEPT !.ok = FALSE]
       ELSE CASE re.op = "OpCharClass" ->
                   [a1 EXCEPT !.out = @ \o CharClassString(re.rune, RandInt(v, n))]
              [] re.op = "OpAnyCharNotNL" ->
                   [a1 EXCEPT !.out = @ \o <<printableNotNL[RandInt(v, n) + 1]>>]
              [] re.op = "OpAnyChar" ->
                   [a1 EXCEPT !.out = @ \o <<printable[RandInt(v, n) + 1]>>]
              [] re.op = "OpAlternate" ->
                   generateFromRegexp(re.sub[RandInt(v, n) + 1], limit, a1)
              [] OTHER ->
                   LET count == RepeatCount(re, limit, v)
                   IN generateFromSubexpression(re, count, limit,
                        [a1 EXCEPT !.reps = Append(@, RepRecord(re, limit, count))])
  ELSE a

(************************ construction ************************************)
WithSource(s) == [kind |-> "source", src |-> s, n |-> 0]
WithLimit(n) == [kind |-> "limit", src |-> "nil", n |-> n]

LimitArgs == {-1, 0, 1, 2, 3}
Options == {WithSource("user"), WithSource("nil")} \cup {WithLimit(n) : n \in LimitArgs}
OptLists == UNION {[1..k -> Options] : k \in 0..MaxOpts}

\* o.apply(x)
Apply(o, xg) ==
  IF o.kind = "source" THEN [xg EXCEPT !.source = o.src]
  ELSE [xg EXCEPT !.limit = o.n]

RECURSIVE ApplyAll(_, _)
ApplyAll(os, xg) ==
  IF os = <<>> THEN xg ELSE ApplyAll(Tail(os), Apply(Head(os), xg))

\* The zero Xeger (no generator).
NoXeger == [re |-> Leaf("OpNoMatch"), source |-> "nil", limit |-> 0]

\* LimitDefaulted with the test written x.limit < 0.
LimitDefaultedStrict(limit) == IF limit < 0 THEN defaultLimit ELSE limit

\* if x.limit <= 0 { x.limit = defaultLimit }
LimitDefaulted(limit) == IF limit <= 0 THEN defaultLimit ELSE limit

\* if x.source == nil { x.source = defaultSource() }
SourceDefaulted(source) == IF source = "nil" THEN "default" ELSE source

NewXeger(text, os) ==
  LET p == Parse(text)
  IN IF ~p.ok THEN [x |-> NoXeger, err |-> TRUE]
     ELSE LET x1 == ApplyAll(os, [re |-> p.re, source |-> "nil", limit |-> 0])
          IN [x |-> [x1 EXCEPT !.source = SourceDefaulted(@),
                               !.limit = LimitDefaulted(@)],
              err |-> FALSE]

\* AfterGenerate for a Generate that spends its cap as a budget.
AfterGenerateSpendsLimit(xg) == [xg EXCEPT !.limit = IF @ > 1 THEN @ - 1 ELSE @]

\* The Xeger after a Generate call: Generate assigns no field.
AfterGenerate(xg) == xg

\* Generate() with the source delivering the script's values.
Generate(xg, script) == generateFromRegexp(xg.re, xg.limit, StartWalk(script))

(************************ the sequential program **************************)
NoLast == [out |-> <<>>, drawn |-> <<>>, reps |-> <<>>, ok |-> TRUE]
Procs == {1, 2}
NoCall == [agenda |-> <<>>, buf |-> <<>>, recv |-> <<>>]

Init ==
  /\ pc = "start"
  /\ regex \in Regexes
  /\ opts \in OptLists
  /\ x = NoXeger
  /\ err = FALSE
  /\ last = NoLast
  /\ calls = 0
  /\ srcPos = 0
  /\ st = [p \in Procs |-> "idle"]
  /\ call = [p \in Procs |-> NoCall]
  /\ ncalls = [p \in Procs |-> 0]
  /\ torn = FALSE

NewXegerAct ==
  /\ pc = "start"
  /\ \E r \in {NewXeger(regex, opts)} :
       /\ x' = r.x
       /\ err' = r.err
       /\ pc' = IF r.err THEN "error" ELSE "ready"
  /\ UNCHANGED <<regex, opts, last, calls, srcPos, st, call, ncalls, torn>>

GenerateAct ==
  /\ pc = "ready"
  /\ calls < MaxCalls
  /\ \E script \in Scripts : \E r \in {Generate(x, script)} :
       /\ last' = [out |-> r.out, drawn |-> r.drawn, reps |-> r.reps, ok |-> r.ok]
       /\ srcPos' = srcPos + Len(r.drawn)
       /\ pc' = IF r.ok THEN "ready" ELSE "panic"
  /\ x' = AfterGenerate(x)
  /\ calls' = calls + 1
  /\ UNCHANGED <<regex, opts, err, st, call, ncalls, torn>>

Next == NewXegerAct \/ GenerateAct

Spec == Init /\ [][Next]_vars

\* Construction alone.
SpecNew == Init /\ [][NewXegerAct]_vars

\* The program whose caller gives NewXeger at most one option.
InitGen == Init /\ opts \in {<<>>} \cup {<<o>> : o \in Options}

SpecGen == InitGen /\ [][Next]_vars

(************************ regular-expression matching *********************)
\* Whether a string belongs to the language of a tree (a full match), as the
\* regexp dialect defines it.  Positions run from 0 (before the first code
\* point) to Len(s).
IsWordChar(c) == c \in (48..57) \cup (65..90) \cup (97..122) \cup {95}

WordAt(s, i) == i >= 1 /\ i <= Len(s) /\ IsWordChar(s[i])

InClass(rune, c) ==
  \E k \in 1..(Len(rune) \div 2) : rune[2 * k - 1] <= c /\ c <= rune[2 * k]

RECURSIVE MatchEnds(_, _, _)
RECURSIVE CatEnds(_, _, _), ClosureEnds(_, _, _, _), UpToEnds(_, _, _, _)
RECURSIVE TimesEnds(_, _, _, _)

\* End positions of matches of re that start in one of the positions I.
StepEnds(re, s, I) == UNION {MatchEnds(re, s, i) : i \in I}

CatEnds(subs, s, I) ==
  IF subs = <<>> THEN I ELSE CatEnds(Tail(subs), s, StepEnds(Head(subs), s, I))

ClosureEnds(re, s, seen, frontier) ==
  LET nxt == StepEnds(re, s, frontier) \ seen
  IN IF nxt = {} THEN seen ELSE ClosureEnds(re, s, seen \cup nxt, nxt)

TimesEnds(re, s, I, k) ==
  IF k <= 0 THEN I ELSE TimesEnds(re, s, StepEnds(re, s, I), k - 1)

UpToEnds(re, s, I, k) ==
  IF k <= 0 THEN I ELSE I \cup UpToEnds(re, s, StepEnds(re, s, I), k - 1)

MatchEnds(re, s, i) ==
  CASE re.op = "OpLiteral" ->
         IF i + Len(re.rune) <= Len(s) /\ SubSeq(s, i + 1, i + Len(re.rune)) = re.rune
         THEN {i + Len(re.rune)} ELSE {}
    [] re.op = "OpCharClass" ->
         IF i < Len(s) /\ InClass(re.rune, s[i + 1]) THEN {i + 1} ELSE {}
    [] re.op = "OpAnyCharNotNL" ->
         IF i < Len(s) /\ s[i + 1] # 10 THEN {i + 1} ELSE {}
    [] re.op = "OpAnyChar" -> IF i < Len(s) THEN {i + 1} ELSE {}
    [] re.op = "OpCapture" -> MatchEnds(re.sub[1], s, i)
    [] re.op = "OpStar" -> ClosureEnds(re.sub[1], s, {i}, {i})
    [] re.op = "OpPlus" ->
         LET f == MatchEnds(re.sub[1], s, i) IN ClosureEnds(re.sub[1], s, f, f)
    [] re.op = "OpQuest" -> {i} \cup MatchEnds(re.sub[1], s, i)
    [] re.op = "OpRepeat" ->
         LET base == TimesEnds(re.sub[1], s, {i}, re.min)
         IN IF re.max = -1 THEN ClosureEnds(re.sub[1], s, base, base)
            ELSE UpToEnds(re.sub[1], s, base, re.max - re.min)
    [] re.op = "OpConcat" -> CatEnds(re.sub, s, {i})
    [] re.op = "OpAlternate" ->
         UNION {MatchEnds(re.sub[k], s, i) : k \in 1..Len(re.sub)}
    [] re.op = "OpEmptyMatch" -> {i}
    [] re.op = "OpBeginText" -> IF i = 0 THEN {i} ELSE {}
    [] re.op = "OpEndText" -> IF i = Len(s) THEN {i} ELSE {}
    [] re.op = "OpBeginLine" -> IF i = 0 \/ s[i] = 10 THEN {i} ELSE {}
    [] re.op = "OpEndLine" -> IF i = Len(s) \/ s[i + 1] = 10 THEN {i} ELSE {}
    [] re.op = "OpWordBoundary" ->
         IF WordAt(s, i) # WordAt(s, i + 1) THEN {i} ELSE {}
    [] re.op = "OpNoWordBoundary" ->
         IF WordAt(s, i) = WordAt(s, i + 1) THEN {i} ELSE {}
    [] OTHER -> {}

Matches(s, re) == Len(s) \in MatchEnds(re, s, 0)

RECURSIVE NodesOf(_)
\* Every node of a tree.
NodesOf(re) == {re} \cup UNION {NodesOf(re.sub[k]) : k \in 1..Len(re.sub)}

(************************ claims: the sequential program ******************)
\* C1: Generate never fails at generation time: every call made on a
\* constructed Xeger returns a string, whatever the pattern, the cap and the
\* values drawn; no call ends in the panic of a draw randInt(0).
C1_GenerateNeverFails == pc # "panic" /\ last.ok

\* C2: match soundness: the string a Generate call returns belongs to the
\* language of the pattern, for every tree (zero-width and no-match nodes
\* included), every cap and every sequence of source values.
C2_MatchSoundness ==
  (calls >= 1 /\ last.ok) => Matches(last.out, x.re)

\* What does hold: a returned string matches when the tree has no zero-width
\* assertion or no-match node and no surrogate code point.
AssertionOps ==
  {"OpNoMatch", "OpBeginLine", "OpEndLine", "OpBeginText", "OpEndText",
   "OpWordBoundary", "OpNoWordBoundary"}

PlainTree(re) ==
  \A n \in NodesOf(re) :
    /\ n.op \notin AssertionOps
    /\ \A k \in 1..Len(n.rune) : n.rune[k] < SurrogateMin \/ n.rune[k] > SurrogateMax

SoundOnPlainTrees ==
  (calls >= 1 /\ last.ok /\ PlainTree(x.re)) => Matches(last.out, x.re)

\* C3: repetition boundedness: with cap C the child of a Star is generated
\* a number of times in [0, C], of a Plus in [1, C], of a Quest in {0, 1},
\* of a Repeat(min, max) in [min, max], an unbounded max being C; for every
\* source value and every min, an unbounded Repeat with min > C included.
CountInBounds(r) ==
  CASE r.op = "OpStar" -> 0 <= r.count /\ r.count <= r.limit
    [] r.op = "OpPlus" -> 1 <= r.count /\ r.count <= r.limit
    [] r.op = "OpQuest" -> r.count \in {0, 1}
    [] OTHER -> /\ r.min <= r.count
                /\ r.count <= (IF r.max = -1 THEN r.limit ELSE r.max)

C3_RepetitionBounded ==
  \A i \in 1..Len(last.reps) : CountInBounds(last.reps[i])

\* What does hold: the bounds are kept by every repetition node except an
\* unbounded Repeat whose min exceeds the cap.
RepetitionBoundedWhenMinFits ==
  \A i \in 1..Len(last.reps) :
    LET r == last.reps[i]
    IN (r.op = "OpRepeat" /\ r.max = -1 /\ r.min > r.limit) \/ CountInBounds(r)

\* C4 (as amended): for the pattern a{2,4}, when the source delivers the
\* value 2 for the repetition count, Generate returns "aaaa": the count is
\* min + (2 mod 3) = 4.
C4_DrawTwoGivesFour ==
  (regex = "a{2,4}" /\ calls >= 1 /\ last.drawn = <<2>>)
    => last.out = <<97, 97, 97, 97>>

\* C4 as first stated: in that run Generate returns "aaa".
C4_DrawTwoGivesThree ==
  (regex = "a{2,4}" /\ calls >= 1 /\ last.drawn = <<2>>)
    => last.out = <<97, 97, 97>>

C4_Witness ==
  /\ regex = "a{2,4}" /\ pc = "ready" /\ calls >= 1
  /\ last.drawn = <<2>> /\ last.ok /\ Len(last.out) = 4

\* The indices of the WithLimit options in a list.
LimitIdx(os) == {i \in 1..Len(os) : os[i].kind = "limit"}

\* The n of the last WithLimit option of a list (0 when there is none).
LastLimit(os) ==
  IF LimitIdx(os) = {} THEN 0
  ELSE os[CHOOSE i \in LimitIdx(os) : \A j \in LimitIdx(os) : j <= i].n

\* C7 (as amended): NewXeger returns an error and no Xeger exactly when the
\* parser rejects the pattern, and then Generate is never reached; otherwise
\* the Xeger has a non-nil source and a cap > 0, and the cap is the n of the
\* LAST WithLimit(n) of the list when that n > 0, and the default 10 when the
\* list has no WithLimit or its last WithLimit has n <= 0 (which also undoes
\* an earlier WithLimit with a positive n).
C7_Construction ==
  pc # "start" =>
    /\ err <=> ~Parse(regex).ok
    /\ err => (x = NoXeger /\ pc = "error" /\ calls = 0)
    /\ ~err => /\ x.source # "nil"
               /\ x.limit > 0
               /\ x.limit = (IF LastLimit(opts) > 0 THEN LastLimit(opts)
                             ELSE defaultLimit)

\* C7 as first stated: a WithLimit(n) with n <= 0 is ignored, so the cap is
\* one of the positive n supplied when there is one, else the default.
C7_NonPositiveLimitIgnored ==
  (pc # "start" /\ ~err) =>
    LET pos == {opts[i].n : i \in {j \in LimitIdx(opts) : opts[j].n > 0}}
    IN /\ x.source # "nil"
       /\ x.limit > 0
       /\ IF pos = {} THEN x.limit = defaultLimit ELSE x.limit \in pos

C7_Witness ==
  /\ pc = "ready"
  /\ Len(opts) = 2 /\ opts[1] = WithLimit(2) /\ opts[2] = WithLimit(0)
  /\ x.limit = defaultLimit /\ x.source = "default"

\* C8: frame of Generate: a Generate call leaves the tree, the cap and the
\* source binding of the Xeger as they were (only the source's position
\* moves), so the call's outcome is that of a first call on a freshly
\* constructed Xeger fed the same source values.
C8_GenerateFrame ==
  [][pc = "ready" =>
       /\ x'.re = x.re /\ x'.limit = x.limit /\ x'.source = x.source
       /\ srcPos' = srcPos + Len(last'.drawn)
       /\ \A fresh \in {Generate(NewXeger(regex, opts).x, ScriptOf(last'.drawn))} :
            /\ last'.ok = fresh.ok
            /\ last'.out = fresh.out
            /\ last'.drawn = fresh.drawn]_vars

C8_Witness ==
  /\ calls >= 2 /\ pc = "ready" /\ Len(last.drawn) >= 2 /\ Len(last.out) >= 2
  /\ srcPos > Len(last.drawn)

\* The code points of a class, and the k-th of them (from 0) in range order.
ClassPoints(rune) ==
  UNION {rune[2 * k - 1]..rune[2 * k] : k \in 1..(Len(rune) \div 2)}

NthPoint(rune, k) ==
  CHOOSE c \in ClassPoints(rune) :
    Cardinality({d \in ClassPoints(rune) : d < c}) = k

ClassNodes(re) == {n \in NodesOf(re) : n.op = "OpCharClass" /\ ClassSum(n.rune) > 0}

\* C10: CharClass selection is a bijection: for a class with a non-empty
\* list of disjoint inclusive ranges covering sum code points, the drawn
\* index k in [0, sum) makes the walk emit the k-th code point of the class in
\* range order (so the map is one-to-one and onto the class, and the empty
\* fallthrough is never reached).
C10_ClassBijection ==
  pc = "ready" =>
    \A n \in ClassNodes(x.re) :
      \A k \in 0..(ClassSum(n.rune) - 1) :
        CharClassString(n.rune, k) = <<NthPoint(n.rune, k)>>

\* What does hold: the rune the range loop picks for index k is the k-th
\* code point of the class; the string emitted is that rune's encoding.
ClassRuneBijection ==
  pc = "ready" =>
    \A n \in ClassNodes(x.re) :
      \A k \in 0..(ClassSum(n.rune) - 1) :
        /\ ClassRune(n.rune, k) = NthPoint(n.rune, k)
        /\ CharClassString(n.rune, k) = RuneString(NthPoint(n.rune, k))

(************************ the concurrent program **************************)
\* Goroutines call Generate on one shared Xeger.  The walk takes no lock, so
\* the only shared state is the source.  A walk advances one node at a time
\* and takes at most one value per step.  The pending part of the recursion
\* is an agenda: the nodes still to generate, in document order.
\*
\* A source supplied by the caller with WithSource is taken to be safe for
\* concurrent use: its Int63 is atomic.  The default source is the result of
\* rand.NewSource, which is not: two goroutines inside its Int63 at once are
\* a data race, after which Int63 may deliver any value, may panic with an
\* index out of range, and may leave the source's state inconsistent so that
\* a later Int63 panics as well.
ConcVals == 0..MaxConcVal

RECURSIVE Copies(_, _)
\* The nodes generateFromSubexpression generates: the children, count times.
Copies(subs, count) == IF count <= 0 THEN <<>> ELSE subs \o Copies(subs, count - 1)

\* NewCall for a walk that keeps appending to the buffer of the call before.
NewCallKeepsBuf(xg, old) == [agenda |-> <<xg.re>>, buf |-> old.buf, recv |-> <<>>]

\* Generate's entry: a walk of the root with an empty result; nothing of an
\* earlier call (old) is carried over.
NewCall(xg, old) == [agenda |-> <<xg.re>>, buf |-> <<>>, recv |-> <<>>]

\* One generateFromRegexp activation: the first node of the agenda, with v
\* the value the source delivers if the node draws.
WalkNode(c, limit, v) ==
  LET re == Head(c.agenda)
      rest == Tail(c.agenda)
      n == DrawBound(re, limit)
      c1 == [c EXCEPT !.recv = Append(@, v)]
  IN IF re.op = "OpLiteral"
       THEN [c |-> [c EXCEPT !.agenda = rest, !.buf = @ \o RunesString(re.rune)],
             drew |-> FALSE, ok |-> TRUE]
     ELSE IF re.op \in {"OpCapture", "OpConcat"}
       THEN [c |-> [c EXCEPT !.agenda = Copies(re.sub, 1) \o rest],
             drew |-> FALSE, ok |-> TRUE]
     ELSE IF re.op \in DrawOps THEN
       IF RandIntPanics(n) THEN [c |-> c1, drew |-> TRUE, ok |-> FALSE]
       ELSE [drew |-> TRUE, ok |-> TRUE, c |->
              CASE re.op = "OpCharClass" ->
                     [c1 EXCEPT !.agenda = rest,
                                !.buf = @ \o CharClassString(re.rune, RandInt(v, n))]
                [] re.op = "OpAnyCharNotNL" ->
                     [c1 EXCEPT !.agenda = rest,
                                !.buf = @ \o <<printableNotNL[RandInt(v, n) + 1]>>]
                [] re.op = "OpAnyChar" ->
                     [c1 EXCEPT !.agenda = rest,
                                !.buf = @ \o <<printable[RandInt(v, n) + 1]>>]
                [] re.op = "OpAlternate" ->
                     [c1 EXCEPT !.agenda = <<re.sub[RandInt(v, n) + 1]>> \o rest]
                [] OTHER ->
                     [c1 EXCEPT !.agenda =
                        Copies(re.sub, RepeatCount(re, limit, v)) \o rest]]
     ELSE [c |-> [c EXCEPT !.agenda = rest], drew |-> FALSE, ok |-> TRUE]

\* The largest count a repetition node can use, over all source values.
MaxCount(re, limit) ==
  LET n == DrawBound(re, limit)
      base == IF re.op = "OpPlus" THEN 1 ELSE IF re.op = "OpRepeat" THEN re.min ELSE 0
  IN IF n = 0 THEN 0 ELSE IF n > 0 THEN base + n - 1 ELSE base + (0 - n) - 1

RECURSIVE MaxDraws(_, _)
\* The most values one walk of re can draw.
MaxDraws(re, limit) ==
  LET Sum[k \in 0..Len(re.sub)] ==
        IF k = 0 THEN 0 ELSE Sum[k - 1] + MaxDraws(re.sub[k], limit)
      Most[k \in 0..Len(re.sub)] ==
        IF k = 0 THEN 0
        ELSE IF MaxDraws(re.sub[k], limit) > Most[k - 1]
          THEN MaxDraws(re.sub[k], limit) ELSE Most[k - 1]
  IN CASE re.op \in {"OpCharClass", "OpAnyCharNotNL", "OpAnyChar"} -> 1
       [] re.op \in {"OpCapture", "OpConcat"} -> Sum[Len(re.sub)]
       [] re.op \in RepeatOps -> 1 + MaxCount(re, limit) * Sum[Len(re.sub)]
       [] re.op = "OpAlternate" -> 1 + Most[Len(re.sub)]
       [] OTHER -> 0

\* The sources whose Int63 is safe for concurrent use.
SafeSources == {"user"}

\* The option lists of the concurrent program: a caller-supplied source or
\* the default one, and a cap or the default one.
ConcOpts ==
  {<<>>, <<WithSource("user")>>}
    \cup {<<WithLimit(n)>> : n \in LimitArgs}
    \cup {<<WithSource("user"), WithLimit(n)>> : n \in LimitArgs}

\* The concurrent program gives NewXeger a pattern whose walks stay within
\* the draw budget.
InitConc ==
  /\ Init
  /\ opts \in ConcOpts
  /\ \E r \in {NewXeger(regex, opts)} :
       r.err \/ MaxDraws(r.x.re, r.x.limit) <= DrawBudget

\* An unrecovered panic in any goroutine ends the program.
Crashed == \E q \in Procs : st[q] \in {"panic", "srcpanic"}

\* The goroutine's next step is a randInt call, hence x.source.Int63().
AtDraw(q) ==
  st[q] = "running" /\ call[q].agenda # <<>> /\ Head(call[q].agenda).op \in DrawOps

\* p's Int63 can overlap another goroutine's Int63 on a source that is not
\* safe for concurrent use.
Racing(p) ==
  /\ x.source \notin SafeSources
  /\ AtDraw(p)
  /\ \E q \in Procs \ {p} : AtDraw(q)

Begin(p) ==
  /\ pc = "ready" /\ ~Crashed
  /\ st[p] \in {"idle", "done"}
  /\ ncalls[p] < ConcCalls
  /\ st' = [st EXCEPT ![p] = "running"]
  /\ call' = [call EXCEPT ![p] = NewCall(x, call[p])]
  /\ ncalls' = [ncalls EXCEPT ![p] = @ + 1]
  /\ UNCHANGED <<pc, regex, opts, x, err, last, calls, srcPos, torn>>

Walk(p) ==
  /\ st[p] = "running" /\ ~Crashed
  /\ call[p].agenda # <<>>
  /\ \E v \in ConcVals : \E r \in {WalkNode(call[p], x.limit, v)} :
       /\ call' = [call EXCEPT ![p] = r.c]
       /\ st' = [st EXCEPT ![p] = IF r.ok THEN "running" ELSE "panic"]
       /\ srcPos' = IF r.drew THEN srcPos + 1 ELSE srcPos
  /\ torn' \in IF Racing(p) THEN {torn, TRUE} ELSE {torn}
  /\ UNCHANGED <<pc, regex, opts, x, err, last, calls, ncalls>>

\* x.source.Int63() panics inside the source (index out of range): in a
\* racing call, or in any call once a race has torn the source's state.
Int63Panics(p) ==
  /\ ~Crashed /\ AtDraw(p)
  /\ Racing(p) \/ torn
  /\ st' = [st EXCEPT ![p] = "srcpanic"]
  /\ UNCHANGED <<pc, regex, opts, x, err, last, calls, srcPos, call, ncalls, torn>>

Return(p) ==
  /\ st[p] = "running" /\ ~Crashed
  /\ call[p].agenda = <<>>
  /\ st' = [st EXCEPT ![p] = "done"]
  /\ UNCHANGED <<pc, regex, opts, x, err, last, calls, srcPos, call, ncalls, torn>>

NextConc ==
  NewXegerAct \/ \E p \in Procs : Begin(p) \/ Walk(p) \/ Int63Panics(p) \/ Return(p)

SpecConc == InitConc /\ [][NextConc]_vars

\* The scheduler lets every running goroutine take its next step.
FairConc ==
  /\ InitConc /\ [][NextConc]_vars
  /\ \A p \in Procs : WF_vars(Walk(p) \/ Int63Panics(p) \/ Return(p))

(************************ claims: the concurrent program ******************)
\* The call's walk has ended: it returned, or panicked in a draw randInt(0).
\* (A call cut short by a panic inside the source has not: it was waiting
\* for a value.)
Finished(p) == st[p] \in {"done", "panic"}

\* The program was ended by a panic inside the source's Int63.
SourcePanicked == \E q \in Procs : st[q] = "srcpanic"

IsPrefix(a, b) == Len(a) <= Len(b) /\ SubSeq(b, 1, Len(a)) = a

\* C5: determinism under a fixed source: for a fixed tree and cap, two runs
\* of Generate fed the same sequence of source values consume the same
\* number of them (neither stops on a proper prefix of what the other
\* consumed) and end alike with the same string.
C5_Determinism ==
  \A p \in Procs : \A q \in Procs :
    (Finished(p) /\ Finished(q) /\ IsPrefix(call[p].recv, call[q].recv))
      => /\ call[p].recv = call[q].recv
         /\ call[p].buf = call[q].buf
         /\ st[p] = st[q]

C5_Witness ==
  /\ st[1] = "done" /\ st[2] = "done"
  /\ call[1].recv = call[2].recv /\ Len(call[1].recv) >= 2
  /\ call[1].buf = call[2].buf /\ call[1].buf # <<>>
  /\ ncalls[1] = 2

\* C6: every call of Generate terminates: a walk that has begun makes
\* finitely many draws and child generations and then returns, whatever
\* values the source delivers (a source that panics instead of delivering a
\* value ends the program, and is no sequence of source values).
C6_EveryCallReturns ==
  \A p \in Procs : (st[p] = "running") ~> (st[p] = "done" \/ SourcePanicked)

\* What does hold: every walk that has begun stops, by returning or by a
\* panic (of a draw randInt(0), or inside the source).
EveryCallStops ==
  \A p \in Procs : (st[p] = "running") ~> (Crashed \/ st[p] = "done")

\* C9: concurrent Generate calls on one Xeger whose source is safe for
\* concurrent use (atomic draws): under every interleaving each call returns
\* (none panics), returns exactly the string a sequential Generate returns
\* for the values that call received, and the string matches the pattern.
C9_ConcurrentCalls ==
  (pc = "ready" /\ x.source \in SafeSources) =>
    \A p \in Procs :
      /\ st[p] \notin {"panic", "srcpanic"}
      /\ st[p] = "done" =>
           \A seq \in {Generate(x, ScriptOf(call[p].recv))} :
              /\ seq.ok
              /\ seq.out = call[p].buf
              /\ seq.drawn = call[p].recv
              /\ Matches(call[p].buf, x.re)

\* What does hold: with a source safe for concurrent use no call panics
\* inside the source and the source's state stays consistent.
SafeSourceNeverRaces ==
  (pc = "ready" /\ x.source \in SafeSources) => (~torn /\ ~SourcePanicked)

\* The default source is not safe: two calls drawing at once can end the
\* program with a panic inside Int63 (a reachable state).
DefaultSourceRacePanic == x.source = "default" /\ SourcePanicked

\* What does hold: a call ends as a sequential Generate fed the values it
\* received ends, with the same string or the same panic.
ConcurrentAsSequential ==
  \A p \in Procs :
    Finished(p) =>
      \A seq \in {Generate(x, ScriptOf(call[p].recv))} :
         /\ seq.ok = (st[p] = "done")
         /\ seq.out = call[p].buf
         /\ seq.drawn = call[p].recv

====
